---- MODULE Spec2Model ----
(***************************************************************************)
(* Auto-sync subsystem of the extension: AutoSyncService (timer, check     *)
(* cycles, pending-updates set), the commands and the configuration-change *)
(* handler that start and stop it, the git operations of a cycle, and the  *)
(* commands updateProject and syncProjectsWithUpdates that pull projects.  *)
(*                                                                         *)
(* The host is a single-threaded event loop.  One action of this model is  *)
(* one macrotask: a handler runs from its trigger to its next suspension   *)
(* on I/O (git subprocess, registry write), and promise continuations that *)
(* become runnable without further I/O run inside the same action.         *)
(***************************************************************************)
EXTENDS Integers, FiniteSets, Sequences, TLC

\* ---- bounds of the model ----
MaxCycles == 2        \* checkForUpdates() calls in one behaviour
MaxTimers == 2        \* timers armed at the same time
MaxCommands == 1      \* settings and registry commands in one behaviour
MaxBehind == 1        \* commits a remote can be ahead of the local branch

Projects == {"A", "B"}

\* ---- program constants ----
DefaultInterval == 30          \* getConfig(): intervalMinutes default
Intervals == {10, DefaultInterval}

VARIABLES
    phase,                 \* "init" before activate(), then "active",
                           \* "inactive" after deactivate()
    cfg,                   \* workspace configuration cursorContexts.autoSync
    nCommands,             \* settings and registry commands so far
    projects,              \* registry: name -> [enabled, git]
    commitsBehind,         \* remote state: name -> commits upstream not local
    intervalId,            \* AutoSyncService.intervalId, 0 = undefined
    timers,                \* host timers armed by setInterval: [id, minutes]
    lastCheckTime,         \* AutoSyncService.lastCheckTime, 0 = undefined
    projectsWithUpdates,   \* AutoSyncService.projectsWithUpdates
    statusBar,             \* status bar item: "hidden", "synced", "updates"
    cycles,                \* checkForUpdates() invocations, in start order
    lastCall,              \* history: the last of start() / stop() called on
                           \* the service, and whether the watcher called it
    syncCmd,               \* command syncProjectsWithUpdates: its position,
                           \* its local projectsToSync and the loop index
    updateCmd              \* command updateProject: the pull in flight, and
                           \* the projects it pulled and recorded so far

vars == <<phase, cfg, nCommands, projects, commitsBehind, intervalId, timers,
          lastCheckTime, projectsWithUpdates, statusBar, cycles, lastCall,
          syncCmd, updateCmd>>

\* The whole state as one record, so that handlers compose (stop(); start()).
Cur ==
    [phase |-> phase, cfg |-> cfg, nCommands |-> nCommands,
     projects |-> projects, commitsBehind |-> commitsBehind,
     intervalId |-> intervalId, timers |-> timers,
     lastCheckTime |-> lastCheckTime,
     projectsWithUpdates |-> projectsWithUpdates, statusBar |-> statusBar,
     cycles |-> cycles, lastCall |-> lastCall, syncCmd |-> syncCmd,
     updateCmd |-> updateCmd, over |-> FALSE]

Apply(s) ==
    /\ ~s.over
    /\ phase' = s.phase
    /\ cfg' = s.cfg
    /\ nCommands' = s.nCommands
    /\ projects' = s.projects
    /\ commitsBehind' = s.commitsBehind
    /\ intervalId' = s.intervalId
    /\ timers' = s.timers
    /\ lastCheckTime' = s.lastCheckTime
    /\ projectsWithUpdates' = s.projectsWithUpdates
    /\ statusBar' = s.statusBar
    /\ cycles' = s.cycles
    /\ lastCall' = s.lastCall
    /\ syncCmd' = s.syncCmd
    /\ updateCmd' = s.updateCmd

Configs ==
    [enabled : BOOLEAN, intervalMinutes : Intervals, autoMerge : BOOLEAN,
     notifyOnUpdates : BOOLEAN, runOnStartup : BOOLEAN]

\* getConfig(): a fresh snapshot of the five settings.
GetConfig(s) ==
    [enabled |-> s.cfg.enabled, intervalMinutes |-> s.cfg.intervalMinutes,
     autoMerge |-> s.cfg.autoMerge, notifyOnUpdates |-> s.cfg.notifyOnUpdates,
     runOnStartup |-> s.cfg.runOnStartup]

\* updateStatusBar(): hidden when disabled, else by the size of the set.
UpdateStatusBar(s) ==
    LET config == GetConfig(s) IN
    IF ~config.enabled THEN [s EXCEPT !.statusBar = "hidden"]
    ELSE IF Cardinality(s.projectsWithUpdates) > 0
         THEN [s EXCEPT !.statusBar = "updates"]
         ELSE [s EXCEPT !.statusBar = "synced"]

\* The setInterval call of start(): a new host timer, remembered in intervalId.
\* A handle is a number no armed timer carries.
ArmTimer(s, minutes) ==
    IF Cardinality(s.timers) >= MaxTimers THEN [s EXCEPT !.over = TRUE]
    ELSE LET used == {t.id : t \in s.timers}
             id == CHOOSE i \in 1..MaxTimers :
                      i \notin used /\ \A j \in 1..(i - 1) : j \in used
         IN UpdateStatusBar(
              [s EXCEPT !.timers = s.timers \cup
                                   {[id |-> id, minutes |-> minutes]},
                        !.intervalId = id])

\* One entry of gitProjects.map(async project => ...).  pc is the operation in
\* flight ("probe", "pull") or "skip" / "done"; the other
\* fields record what the task observed and did.
NoTask ==
    [pc |-> "skip", probe |-> "none", hasUpdates |-> FALSE, added |-> FALSE,
     pull |-> "none", tsWrites |-> 0, errorShown |-> FALSE,
     infoShown |-> FALSE]

\* Mutant of the filter: the enabled flag is not looked at.
GitProjects_IgnoresEnabled(s) ==
    {p \in Projects : s.projects[p].git}

\* Mutant of the filter: the eligible projects are computed by the first
\* cycle and reused by the later ones.
GitProjects_Cached(s) ==
    IF Len(s.cycles) > 0 THEN s.cycles[1].eligible
    ELSE {p \in Projects : s.projects[p].enabled /\ s.projects[p].git}

\* The filter of checkForUpdates(): enabled and a .git marker in the folder.
GitProjects(s) ==
    {p \in Projects : s.projects[p].enabled /\ s.projects[p].git}

\* The cycles whose Promise.all has not resolved yet.
InFlight(s) ==
    {c \in 1..Len(s.cycles) : s.cycles[c].status = "running"}

\* History kept for the properties: every cycle in flight is marked with
\* whether another cycle ran beside it (overlapped) and whether stop() was
\* called since it began with no start() after (stoppedSince).
MarkRunning(s, k, v) ==
    [c \in 1..Len(s.cycles) |->
        IF s.cycles[c].status = "running"
        THEN [s.cycles[c] EXCEPT ![k] = v] ELSE s.cycles[c]]

\* stop(): clears the timer intervalId refers to, if any; hides the status bar.
Stop(s) ==
    LET s1 == IF s.intervalId # 0
              THEN [s EXCEPT !.timers = {t \in s.timers : t.id # s.intervalId},
                             !.intervalId = 0]
              ELSE s
    IN [s1 EXCEPT !.statusBar = "hidden",
                  !.cycles = MarkRunning(s, "stoppedSince", TRUE),
                  !.lastCall = [call |-> "stop", by |-> "caller"]]

\* notifyUpdatesAvailable(count, autoMerged): one aggregated message, listing
\* the set as it is when the message is built.
NotifyUpdatesAvailable(s, c, count) ==
    [s EXCEPT !.cycles[c].notified = count,
              !.cycles[c].notifiedNames = s.projectsWithUpdates]

\* Mutant of the end of checkForUpdates(): the notify decision reads the
\* settings again instead of using the snapshot taken when the cycle began.
FinishCycle_ReadsConfigAgain(s, c) ==
    LET cy == s.cycles[c]
        s1 == IF cy.updatesFound > 0 /\ GetConfig(s).notifyOnUpdates
              THEN NotifyUpdatesAvailable(s, c, cy.updatesFound)
              ELSE s
        s2 == UpdateStatusBar(s1)
        s3 == [s2 EXCEPT !.cycles[c].status = "done",
                         !.cycles[c].allUpToDateShown =
                             (cy.origin = "manual"
                              /\ Cardinality(s2.projectsWithUpdates) = 0)]
    IN IF cy.starter # 0 THEN ArmTimer(s3, cy.starter) ELSE s3

\* The code of checkForUpdates() after `await Promise.all(...)`, followed by
\* the continuation of a start() that awaits this cycle.
FinishCycle(s, c) ==
    LET cy == s.cycles[c]
        s1 == IF cy.updatesFound > 0 /\ cy.config.notifyOnUpdates
              THEN NotifyUpdatesAvailable(s, c, cy.updatesFound)
              ELSE s
        s2 == UpdateStatusBar(s1)
        s3 == [s2 EXCEPT !.cycles[c].status = "done",
                         !.cycles[c].allUpToDateShown =
                             (cy.origin = "manual"
                              /\ Cardinality(s2.projectsWithUpdates) = 0)]
    IN IF cy.starter # 0 THEN ArmTimer(s3, cy.starter) ELSE s3

\* Mutant of the fan-in: the first task to end resolves the wait
\* (Promise.race in place of Promise.all).
Settle_FirstTaskWins(s, c) ==
    IF s.cycles[c].status = "running" THEN FinishCycle(s, c) ELSE s

\* Promise.all resolves when the last per-project task has ended.
Settle(s, c) ==
    IF \A p \in Projects : s.cycles[c].task[p].pc \in {"skip", "done"}
    THEN FinishCycle(s, c)
    ELSE s

\* Mutant of the entry of checkForUpdates(): the set is not cleared.
BeginCycle_KeepsPending(s, c) ==
    [s EXCEPT !.lastCheckTime = c]

\* Mutant of the entry of checkForUpdates(): the time is not recorded.
BeginCycle_NoTimestamp(s, c) ==
    [s EXCEPT !.projectsWithUpdates = {}]

\* The entry of checkForUpdates(): lastCheckTime = new Date() (the model
\* takes the number of the call as the time) and projectsWithUpdates.clear().
BeginCycle(s, c) ==
    [s EXCEPT !.lastCheckTime = c, !.projectsWithUpdates = {}]

\* checkForUpdates() up to its first suspension.  origin is the caller;
\* starter is the interval a suspended start() will arm afterwards (0: none).
CheckForUpdates(s, origin, starter) ==
    IF Len(s.cycles) >= MaxCycles THEN [s EXCEPT !.over = TRUE]
    ELSE
    LET c == Len(s.cycles) + 1
        config == GetConfig(s)
        gitProjects == GitProjects(s)
        cy == [status |-> "running", config |-> config, origin |-> origin,
               starter |-> starter, seen |-> s.projects,
               eligible |-> gitProjects,
               task |-> [p \in Projects |->
                           IF p \in gitProjects
                           THEN [NoTask EXCEPT !.pc = "probe"] ELSE NoTask],
               updatesFound |-> 0, notified |-> 0, notifiedNames |-> {},
               allUpToDateShown |-> FALSE,
               overlapped |-> InFlight(s) # {}, stoppedSince |-> FALSE]
        s1 == [BeginCycle(s, c) EXCEPT
                  !.cycles = Append(MarkRunning(s, "overlapped", TRUE), cy)]
    IN IF gitProjects = {}
       THEN LET s2 == UpdateStatusBar(s1)
                s3 == [s2 EXCEPT !.cycles[c].status = "done",
                                 !.cycles[c].allUpToDateShown =
                                     (origin = "manual")]
            IN IF starter # 0 THEN ArmTimer(s3, starter) ELSE s3
       ELSE s1

\* Mutant of start(): the enabled setting is not looked at.
Start_IgnoresEnabled(s) ==
    LET config == GetConfig(s)
        s0 == [s EXCEPT !.lastCall = [call |-> "start", by |-> "caller"]]
        s1 == [s0 EXCEPT !.cycles = MarkRunning(s, "stoppedSince", FALSE)]
    IN
    IF config.runOnStartup
    THEN CheckForUpdates(s1, "start", config.intervalMinutes)
    ELSE ArmTimer(s1, config.intervalMinutes)

\* Mutant of start(): the run-on-startup cycle runs whatever runOnStartup is.
Start_IgnoresRunOnStartup(s) ==
    LET config == GetConfig(s)
        s0 == [s EXCEPT !.lastCall = [call |-> "start", by |-> "caller"]]
        s1 == [s0 EXCEPT !.cycles = MarkRunning(s, "stoppedSince", FALSE)]
    IN
    IF ~config.enabled THEN [s0 EXCEPT !.statusBar = "hidden"]
    ELSE CheckForUpdates(s1, "start", config.intervalMinutes)

\* start(): nothing but hiding the status bar when disabled; otherwise the
\* run-on-startup cycle is awaited before the timer is armed.
Start(s) ==
    LET config == GetConfig(s)
        s0 == [s EXCEPT !.lastCall = [call |-> "start", by |-> "caller"]]
        s1 == [s0 EXCEPT !.cycles = MarkRunning(s, "stoppedSince", FALSE)]
    IN
    IF ~config.enabled THEN [s0 EXCEPT !.statusBar = "hidden"]
    ELSE IF config.runOnStartup
         THEN CheckForUpdates(s1, "start", config.intervalMinutes)
         ELSE ArmTimer(s1, config.intervalMinutes)

\* Settings at activation: interval and notifications at their defaults;
\* enabled, autoMerge and runOnStartup free, except that an enabled service
\* starts with runOnStartup at its default (true).  Enabled without
\* runOnStartup is reached through the settings commands.
InitConfigs ==
    {k \in Configs : /\ k.intervalMinutes = DefaultInterval
                     /\ k.notifyOnUpdates
                     /\ k.enabled => k.runOnStartup}

\* Registries at activation: A is an enabled git-backed project; B is enabled
\* or disabled, git-backed or a plain folder.
InitRegistries ==
    {r \in [Projects -> [enabled : BOOLEAN, git : BOOLEAN]] :
        r["A"].enabled /\ r["A"].git /\ (r["B"].enabled \/ r["B"].git)}

\* Remotes at activation: A has upstream commits, B may have.
InitRemotes ==
    {b \in [Projects -> 0..MaxBehind] : b["A"] > 0}

Init ==
    /\ phase = "init"
    /\ cfg \in InitConfigs
    /\ nCommands = 0
    /\ projects \in InitRegistries
    /\ commitsBehind \in InitRemotes
    /\ intervalId = 0
    /\ timers = {}
    /\ lastCheckTime = 0
    /\ projectsWithUpdates = {}
    /\ statusBar = "hidden"
    /\ cycles = <<>>
    /\ lastCall = [call |-> "none", by |-> "none"]
    /\ syncCmd = [pc |-> "idle", projectsToSync |-> <<>>, i |-> 0]
    /\ updateCmd = [pc |-> "idle", p |-> "A", bySync |-> FALSE,
                    pulled |-> {}, recorded |-> {}]

\* Mutant of checkProjectForUpdates(): a failed probe reports an update.
CheckProjectForUpdates_FailureIsUpdate(ok, n) ==
    IF ok THEN n > 0 ELSE TRUE

\* The return value of checkProjectForUpdates(): commitsBehind > 0, and false
\* when fetch or rev-list threw.
CheckProjectForUpdates(ok, n) ==
    IF ok THEN n > 0 ELSE FALSE

\* contextManager.updateGitProject(name): the registry records a timestamp.
UpdateGitProject(s, c, p) ==
    [s EXCEPT !.cycles[c].task[p].tsWrites = @ + 1]

\* Mutant of the task body: a task that found updates overwrites the shared
\* set and counter with its own result instead of adding to them.
OnProbeResult_LastWriterWins(s, c, p, probe, hasUpdates) ==
    LET s1 == [s EXCEPT !.cycles[c].task[p].probe = probe,
                        !.cycles[c].task[p].hasUpdates = hasUpdates]
    IN IF hasUpdates
       THEN LET s2 == [s1 EXCEPT
                         !.projectsWithUpdates = {p},
                         !.cycles[c].task[p].added = TRUE,
                         !.cycles[c].updatesFound = 1]
            IN IF s.cycles[c].config.autoMerge
               THEN [s2 EXCEPT !.cycles[c].task[p].pc = "pull"]
               ELSE Settle([s2 EXCEPT !.cycles[c].task[p].pc = "done"], c)
       ELSE Settle([s1 EXCEPT !.cycles[c].task[p].pc = "done"], c)

\* The body of the per-project task once checkProjectForUpdates() returned.
OnProbeResult(s, c, p, probe, hasUpdates) ==
    LET s1 == [s EXCEPT !.cycles[c].task[p].probe = probe,
                        !.cycles[c].task[p].hasUpdates = hasUpdates]
    IN IF hasUpdates
       THEN LET s2 == [s1 EXCEPT
                         !.projectsWithUpdates = @ \cup {p},
                         !.cycles[c].task[p].added = TRUE,
                         !.cycles[c].updatesFound = @ + 1]
            IN IF s.cycles[c].config.autoMerge
               THEN [s2 EXCEPT !.cycles[c].task[p].pc = "pull"]
               ELSE Settle([s2 EXCEPT !.cycles[c].task[p].pc = "done"], c)
       ELSE Settle([s1 EXCEPT !.cycles[c].task[p].pc = "done"], c)

\* The awaited checkProjectForUpdates() of a task returns: `git fetch origin`
\* and `git rev-list HEAD..origin/HEAD --count` both ran (ok), or one of them
\* threw.  The service touches none of its state between the two commands,
\* so the pair is one step.
ProbeDone(c, p, ok) ==
    /\ c \in 1..Len(cycles)
    /\ cycles[c].task[p].pc = "probe"
    /\ LET n == commitsBehind[p]
           probe == IF ~ok THEN "failed"
                    ELSE IF n > 0 THEN "behind" ELSE "current"
       IN Apply(OnProbeResult(Cur, c, p, probe,
                              CheckProjectForUpdates(ok, n)))

\* `git pull origin` of pullProject() returns.
PullDone(c, p, ok) ==
    /\ c \in 1..Len(cycles)
    /\ cycles[c].task[p].pc = "pull"
    /\ IF ok
       THEN Apply(Settle(
                    [UpdateGitProject(
                       [Cur EXCEPT !.commitsBehind[p] = 0,
                                   !.cycles[c].task[p].pull = "ok"], c, p)
                     EXCEPT !.cycles[c].task[p].infoShown = TRUE,
                            !.cycles[c].task[p].pc = "done"], c))
       ELSE Apply(Settle([Cur EXCEPT !.cycles[c].task[p].pull = "failed",
                                     !.cycles[c].task[p].errorShown = TRUE,
                                     !.cycles[c].task[p].pc = "done"], c))

\* The onDidChangeConfiguration listener, called with the old and new values.
OnDidChangeConfiguration(s, old) ==
    LET s1 == IF old.enabled # s.cfg.enabled
              THEN IF s.cfg.enabled THEN Start(s) ELSE Stop(s)
              ELSE IF old # s.cfg
                   THEN Start(Stop(s))
                   ELSE s
    IN IF old # s.cfg THEN [s1 EXCEPT !.lastCall.by = "watcher"] ELSE s1

\* WorkspaceConfiguration.update(): writes the setting; the host fires the
\* change event before the returned promise resolves.
ConfigUpdate(s, new) ==
    IF new = s.cfg THEN s
    ELSE OnDidChangeConfiguration([s EXCEPT !.cfg = new], s.cfg)

\* A command invoked by the user: counted against the bound of the model.
Command(s) ==
    IF s.nCommands >= MaxCommands THEN [s EXCEPT !.over = TRUE]
    ELSE [s EXCEPT !.nCommands = @ + 1]

\* activate(): constructs the service and calls start() on it.
Activate ==
    /\ phase = "init"
    /\ Apply(Start([Cur EXCEPT !.phase = "active"]))

\* The module-level `let autoSyncService` that deactivate() reads.  Nothing
\* assigns it: activate() declares a const of the same name for the service it
\* constructs and starts, and that const shadows this variable.
ModuleAutoSyncService == "undefined"

\* deactivate(): stops the service the module-level variable holds, if it holds
\* one.  The host then disposes context.subscriptions, which ends the commands
\* and the configuration listener; timers and pending callbacks are not among
\* them.  Counted with the commands to bound the user-driven events of a run.
Deactivate ==
    /\ phase = "active"
    /\ LET s == [Command(Cur) EXCEPT !.phase = "inactive"]
       IN Apply(IF ModuleAutoSyncService # "undefined" THEN Stop(s) ELSE s)

\* The setInterval callback: checkForUpdates(), not awaited.  The host runs
\* it for every armed timer, whether or not the extension was deactivated.
TimerTick ==
    /\ phase # "init"
    /\ \E t \in timers : Apply(CheckForUpdates(Cur, "timer", 0))

\* Command checkForUpdatesNow -> manualCheck().
ManualCheck ==
    /\ phase = "active"
    /\ Apply(CheckForUpdates(Cur, "manual", 0))

\* Command enableAutoSync.
EnableAutoSync ==
    /\ phase = "active"
    /\ Apply(Start(ConfigUpdate(Command(Cur), [cfg EXCEPT !.enabled = TRUE])))

\* Command disableAutoSync.
DisableAutoSync ==
    /\ phase = "active"
    /\ Apply(Stop(ConfigUpdate(Command(Cur), [cfg EXCEPT !.enabled = FALSE])))

\* Command configureAutoSync, option Enable/Disable.
ConfigureToggle ==
    /\ phase = "active"
    /\ LET newEnabled == ~cfg.enabled
           s1 == ConfigUpdate(Command(Cur), [cfg EXCEPT !.enabled = newEnabled])
       IN Apply(IF newEnabled THEN Start(s1) ELSE Stop(s1))

\* Command configureAutoSync, option Change Interval.
ConfigureInterval(i) ==
    /\ phase = "active"
    /\ Apply(Start(Stop(ConfigUpdate(Command(Cur),
                                     [cfg EXCEPT !.intervalMinutes = i]))))

\* Command configureAutoSync, options Auto-Merge, Notifications and Run on
\* Startup: the setting is flipped and nothing else is called.
ConfigureFlag(k) ==
    /\ phase = "active"
    /\ Apply(ConfigUpdate(Command(Cur), [cfg EXCEPT ![k] = ~cfg[k]]))

\* The user edits one setting in the settings editor: only the change listener
\* runs.
SettingsEdited(new) ==
    /\ phase = "active"
    /\ new # cfg
    /\ Apply(ConfigUpdate(Command(Cur), new))

\* Command toggleProject -> contextManager.toggleProject(name).
ToggleProject(p) ==
    /\ phase = "active"
    /\ Apply([Command(Cur) EXCEPT !.projects[p].enabled = ~@])

\* The user creates or removes the .git directory of a project folder
\* (git init, rm -rf .git): fs.existsSync of the filter sees it from then
\* on.  Counted with the commands.
GitMarkerChanged(p) ==
    /\ phase = "active"
    /\ Apply([Command(Cur) EXCEPT !.projects[p].git = ~@])

\* getProjectsWithUpdates(): Array.from(this.projectsWithUpdates), a new
\* array listing the set.  The set of the arrays it can return: the model
\* does not keep the insertion order of the set.
GetProjectsWithUpdates(s) ==
    LET n == Cardinality(s.projectsWithUpdates) IN
    {q \in [1..n -> s.projectsWithUpdates] :
        \A i, j \in 1..n : i # j => q[i] # q[j]}

\* Mutant of the loop of syncProjectsWithUpdates: the list is a live view,
\* names that left the set since the accessor returned are gone from it.
ProjectsToSync_LiveView(s) ==
    LET Pending(name) == name \in s.projectsWithUpdates
    IN SelectSeq(s.syncCmd.projectsToSync, Pending)

\* The local const projectsToSync the loop of syncProjectsWithUpdates walks.
ProjectsToSync(s) ==
    s.syncCmd.projectsToSync

\* Command updateProject up to its first suspension: a warning and nothing
\* else for a folder without .git, otherwise githubService.updateProject()
\* (fetch and pull) is in flight.
UpdateProject(s, p, bySync) ==
    IF ~s.projects[p].git THEN s
    ELSE [s EXCEPT !.updateCmd.pc = "pull", !.updateCmd.p = p,
                   !.updateCmd.bySync = bySync]

\* The for loop of syncProjectsWithUpdates from its next iteration to the
\* next suspension: each project of projectsToSync is handed to the command
\* updateProject and awaited; after the last one a message is shown.
RECURSIVE SyncLoop(_)
SyncLoop(s) ==
    LET list == ProjectsToSync(s)
        i == s.syncCmd.i + 1
    IN IF i > Len(list) THEN [s EXCEPT !.syncCmd.pc = "done"]
       ELSE LET s1 == UpdateProject([s EXCEPT !.syncCmd.i = i], list[i], TRUE)
            IN IF s1.updateCmd.pc = "pull" THEN s1 ELSE SyncLoop(s1)

\* Command syncProjectsWithUpdates: reads the list once; an empty list ends
\* the command with a message.
SyncProjectsWithUpdates ==
    /\ phase = "active"
    /\ syncCmd.pc = "idle"
    /\ updateCmd.pc = "idle"
    /\ \E projectsToSync \in GetProjectsWithUpdates(Cur) :
          LET s == [Command(Cur) EXCEPT
                      !.syncCmd.projectsToSync = projectsToSync]
          IN IF Len(projectsToSync) = 0
             THEN Apply([s EXCEPT !.syncCmd.pc = "done"])
             ELSE Apply(SyncLoop([s EXCEPT !.syncCmd.pc = "run"]))

\* Command updateProject invoked by the user on project p.
UpdateProjectCommand(p) ==
    /\ phase = "active"
    /\ syncCmd.pc # "run"
    /\ updateCmd.pc = "idle"
    /\ projects[p].git
    /\ Apply(UpdateProject(Command(Cur), p, FALSE))

\* githubService.updateProject() returns in the command updateProject: the
\* pull succeeded (ok) or fetch or pull threw.  With changes pulled the
\* registry records the project (contextManager.updateGitProject); an error
\* is caught and shown.  The loop of syncProjectsWithUpdates, when it
\* awaits this command, goes on.
UpdateProjectDone(ok) ==
    /\ updateCmd.pc = "pull"
    /\ LET p == updateCmd.p
           hasChanges == commitsBehind[p] > 0
           s1 == IF ok
                 THEN [Cur EXCEPT
                         !.commitsBehind[p] = 0,
                         !.updateCmd.pc = "idle",
                         !.updateCmd.pulled = @ \cup {p},
                         !.updateCmd.recorded =
                             IF hasChanges THEN @ \cup {p} ELSE @]
                 ELSE [Cur EXCEPT !.updateCmd.pc = "idle"]
       IN Apply(IF updateCmd.bySync THEN SyncLoop(s1) ELSE s1)

Next ==
    \/ Activate
    \/ Deactivate
    \/ TimerTick
    \/ ManualCheck
    \/ \E c \in 1..MaxCycles, p \in Projects, ok \in BOOLEAN :
          ProbeDone(c, p, ok)
    \/ \E c \in 1..MaxCycles, p \in Projects, ok \in BOOLEAN :
          PullDone(c, p, ok)
    \/ EnableAutoSync
    \/ DisableAutoSync
    \/ ConfigureToggle
    \/ \E i \in Intervals : ConfigureInterval(i)
    \/ \E k \in {"autoMerge", "notifyOnUpdates", "runOnStartup"} :
          ConfigureFlag(k)
    \/ \E i \in Intervals :
          SettingsEdited([cfg EXCEPT !.intervalMinutes = i])
    \/ SettingsEdited([cfg EXCEPT !.enabled = ~@])
    \/ \E p \in Projects : ToggleProject(p)
    \/ \E p \in Projects : GitMarkerChanged(p)
    \/ SyncProjectsWithUpdates
    \/ \E p \in Projects : UpdateProjectCommand(p)
    \/ \E ok \in BOOLEAN : UpdateProjectDone(ok)

Spec == Init /\ [][Next]_vars

\* ---- properties ----

CycleIds == 1..Len(cycles)

\* Operations of the service in flight against the folder of p.
GitOpsInFlight(p) ==
    {c \in CycleIds : cycles[c].task[p].pc \in {"probe", "pull"}}

\* The step in which the checkForUpdates() call c returns.
Completes(c) ==
    /\ c \in DOMAIN cycles'
    /\ cycles'[c].status = "done"
    /\ (c \in DOMAIN cycles => cycles[c].status = "running")

\* C1: at most one check cycle is in flight at any time, so no project has
\* two probes or pulls of the service running at once.
C1_SingleCycleInFlight ==
    /\ Cardinality(InFlight(Cur)) <= 1
    /\ \A p \in Projects : Cardinality(GitOpsInFlight(p)) <= 1

\* C2: in the state right after a cycle completes, a project is in the
\* pending-updates set iff that cycle's probe found it behind and no pull of
\* it succeeded in that cycle.
C2_PendingSetAccuracy ==
    [][\A c \in 1..MaxCycles : Completes(c) =>
          \A p \in Projects :
             (p \in projectsWithUpdates') <=>
                (/\ cycles'[c].task[p].probe = "behind"
                 /\ cycles'[c].task[p].pull # "ok")]_vars

\* C3: with autoMerge, a project found behind whose pull succeeded is absent
\* from the pending-updates set after the cycle, and the registry received
\* exactly one timestamp write for it.
C3_AutoMergeClearsPending ==
    [][\A c \in 1..MaxCycles : Completes(c) /\ cycles'[c].config.autoMerge =>
          \A p \in Projects :
             (cycles'[c].task[p].probe = "behind"
              /\ cycles'[c].task[p].pull = "ok") =>
                (/\ p \notin projectsWithUpdates'
                 /\ cycles'[c].task[p].tsWrites = 1)]_vars

\* C4: without autoMerge, after a cycle every project it found behind is in
\* the pending-updates set, and the cycle issued no pull and no timestamp
\* write.
C4_NotifyOnlyLeavesPending ==
    [][\A c \in 1..MaxCycles : Completes(c) /\ ~cycles'[c].config.autoMerge =>
          \A p \in Projects :
             /\ cycles'[c].task[p].probe = "behind"
                   => p \in projectsWithUpdates'
             /\ cycles'[c].task[p].pull = "none"
             /\ cycles'[c].task[p].tsWrites = 0]_vars

\* C5: a cycle that completes after stop() was called during it, with no
\* start() in between, leaves the pending-updates set empty and the service
\* stopped (no timer armed).
C5_StopDiscardsLateResults ==
    [][\A c \in 1..MaxCycles :
          (/\ c \in DOMAIN cycles
           /\ cycles[c].stoppedSince
           /\ Completes(c)) =>
             (/\ projectsWithUpdates' = {}
              /\ timers' = {}
              /\ intervalId' = 0)]_vars

\* C6: at most one timer of the service is armed, and every armed timer is the
\* one intervalId refers to.
C6_NoLeakedTimers ==
    /\ Cardinality(timers) <= 1
    /\ \A t \in timers : t.id = intervalId

\* C7: a project whose fetch or rev-list failed is treated as having no
\* update; every other eligible project of the cycle is still probed, found
\* updates are recorded (and pulled under autoMerge), and the call completes
\* once all per-project tasks have ended.
C7_ProbeFailureIsolated ==
    \A c \in CycleIds :
       LET cy == cycles[c] IN
       /\ \A p \in Projects :
             cy.task[p].probe = "failed" =>
                (/\ ~cy.task[p].hasUpdates
                 /\ ~cy.task[p].added
                 /\ cy.task[p].pull = "none"
                 /\ cy.task[p].pc = "done")
       /\ cy.updatesFound = Cardinality({p \in Projects : cy.task[p].added})
       /\ cy.status = "done" <=>
             \A p \in Projects : cy.task[p].pc \in {"skip", "done"}
       /\ cy.status = "done" =>
             \A p \in cy.eligible :
                /\ cy.task[p].probe # "none"
                /\ cy.task[p].probe = "behind" =>
                      (/\ cy.task[p].added
                       /\ cy.config.autoMerge => cy.task[p].pull # "none")

\* C7 witness: a completed cycle in which one probe failed and the other
\* project was found behind and recorded.
C7_Witness ==
    \E c \in CycleIds : \E p, q \in Projects :
       /\ cycles[c].status = "done"
       /\ p # q
       /\ cycles[c].task[p].probe = "failed"
       /\ cycles[c].task[q].probe = "behind"
       /\ cycles[c].task[q].added
       /\ q \in projectsWithUpdates

\* C8: under autoMerge, a project whose pull failed is in the pending-updates
\* set after the cycle, got no timestamp write, an error message naming it
\* was shown, and every other eligible project was processed.
C8_FailedMergeStaysPending ==
    [][\A c \in 1..MaxCycles : Completes(c) =>
          \A p \in Projects :
             cycles'[c].task[p].pull = "failed" =>
                (/\ p \in projectsWithUpdates'
                 /\ cycles'[c].task[p].tsWrites = 0
                 /\ cycles'[c].task[p].errorShown
                 /\ \A q \in cycles'[c].eligible :
                       cycles'[c].task[q].pc = "done")]_vars

\* C9: a project that is disabled when a cycle reads the registry gets no
\* fetch, rev-list or pull from that cycle and is never inserted into the
\* pending-updates set by it; after a cycle that ran alone it is not in the
\* set.
C9_DisabledExcluded ==
    \A c \in CycleIds : \A p \in Projects :
       ~cycles[c].seen[p].enabled =>
          (/\ cycles[c].task[p] = NoTask
           /\ p \notin cycles[c].eligible
           /\ (c = Len(cycles) /\ ~cycles[c].overlapped)
                 => p \notin projectsWithUpdates)

\* C9 witness: a completed cycle skipped a disabled git-backed project that
\* is behind its remote, while probing the other project.
C9_Witness ==
    \E c \in CycleIds : \E p, q \in Projects :
       /\ cycles[c].status = "done"
       /\ ~cycles[c].seen[p].enabled
       /\ cycles[c].seen[p].git
       /\ commitsBehind[p] > 0
       /\ cycles[c].task[q].probe = "behind"

\* C10: every armed timer carries the interval currently configured, so
\* after intervalMinutes changed no tick comes from a timer with the old
\* interval.
C10_IntervalRearm ==
    \A t \in timers : t.minutes = cfg.intervalMinutes

\* The checkForUpdates() calls that begin in this step.
NewCycles == DOMAIN cycles' \ DOMAIN cycles

\* C11: while the last lifecycle call on the service is stop(), no timer
\* tick starts a check cycle, whatever start() calls were suspended when
\* stop() ran; and the step in which stop() runs ends no cycle in flight.
C11_StopCancelsTicking ==
    [][/\ lastCall.call = "stop" =>
             \A c \in NewCycles : cycles'[c].origin # "timer"
       /\ (lastCall'.call = "stop" /\ lastCall # lastCall') =>
             \A c \in InFlight(Cur) : cycles'[c].status = "running"]_vars

\* C12: a cycle that completes shows the aggregated notification iff its
\* notifyOnUpdates is true and the pending-updates set it leaves is
\* non-empty, and the count in the message is the size of that set.
C12_AggregatedNotification ==
    [][\A c \in 1..MaxCycles : Completes(c) =>
          /\ cycles'[c].notified > 0 <=>
                (/\ cycles'[c].config.notifyOnUpdates
                 /\ projectsWithUpdates' # {})
          /\ cycles'[c].notified > 0 =>
                cycles'[c].notified = Cardinality(projectsWithUpdates')]_vars

\* C13: start() called while autoSync.enabled is false arms no timer, begins
\* no cycle and leaves the pending-updates set, lastCheckTime and intervalId
\* as they are; so every start() that arms a timer after its run-on-startup
\* cycle read enabled = true when it was called.
C13_StartGatedOnConfig ==
    /\ ~cfg.enabled =>
          LET s == Start(Cur) IN
          /\ ~s.over
          /\ s.timers = timers
          /\ s.intervalId = intervalId
          /\ s.cycles = cycles
          /\ s.projectsWithUpdates = projectsWithUpdates
          /\ s.lastCheckTime = lastCheckTime
    /\ \A c \in CycleIds :
          (cycles[c].origin = "start" \/ cycles[c].starter # 0) =>
             cycles[c].config.enabled

\* C13 witness: while disabled, a settings change made the watcher call
\* stop() and start() during a manual check that had already recorded a
\* project; the set and lastCheckTime are kept, the cycle goes on and no
\* timer is armed.
C13_Witness ==
    /\ lastCall = [call |-> "start", by |-> "watcher"]
    /\ ~cfg.enabled
    /\ timers = {}
    /\ lastCheckTime # 0
    /\ \E c \in InFlight(Cur) : \E p \in Projects :
          /\ cycles[c].stoppedSince
          /\ cycles[c].task[p].added
          /\ p \in projectsWithUpdates

\* The start() calls suspended on their run-on-startup cycle.
SuspendedStarts == {c \in InFlight(Cur) : cycles[c].starter # 0}

\* C14: after the configuration watcher dispatched a change (its call is the
\* last lifecycle call on the service), the last call is start() when
\* autoSync is enabled and stop() only when it is disabled; and once every
\* start() has returned while enabled, exactly one timer is armed and it
\* carries the current interval.
C14_WatcherDispatch ==
    lastCall.by = "watcher" =>
       /\ cfg.enabled => lastCall.call = "start"
       /\ lastCall.call = "stop" => ~cfg.enabled
       /\ (cfg.enabled /\ SuspendedStarts = {}) =>
             /\ Cardinality(timers) = 1
             /\ \A t \in timers : t.minutes = cfg.intervalMinutes

\* The step in which syncProjectsWithUpdates calls getProjectsWithUpdates().
AccessorCalled == syncCmd.pc = "idle" /\ syncCmd'.pc # "idle"

\* C15: the step that calls getProjectsWithUpdates() begins no cycle and no
\* git operation of the service and leaves the pending-updates set,
\* lastCheckTime and the timer as they are; the list returned enumerates the
\* set of that moment, and it is a snapshot: while the command walks it,
\* the list stays as returned whatever happens to the set, and the command
\* updates exactly the projects of the list, one after the other.
C15_AccessorPureRead ==
    [][/\ AccessorCalled =>
             /\ syncCmd'.projectsToSync \in GetProjectsWithUpdates(Cur)
             /\ projectsWithUpdates' = projectsWithUpdates
             /\ lastCheckTime' = lastCheckTime
             /\ timers' = timers
             /\ intervalId' = intervalId
             /\ cycles' = cycles
       /\ syncCmd.pc = "run" =>
             syncCmd'.projectsToSync = syncCmd.projectsToSync
       /\ syncCmd'.pc = "run" =>
             /\ updateCmd'.pc = "pull"
             /\ updateCmd'.bySync
             /\ updateCmd'.p = syncCmd'.projectsToSync[syncCmd'.i]
       /\ syncCmd'.pc = "done" =>
             syncCmd'.i = Len(syncCmd'.projectsToSync)]_vars

\* C15 witness: syncProjectsWithUpdates is walking a non-empty list while a
\* later cycle has emptied the set the list was taken from.
C15_Witness ==
    /\ syncCmd.pc = "run"
    /\ Len(syncCmd.projectsToSync) > 0
    /\ projectsWithUpdates = {}
    /\ updateCmd.p = syncCmd.projectsToSync[syncCmd.i]

\* A step whose last lifecycle call on the service is stop().
StopReturns == lastCall'.call = "stop" /\ lastCall' # lastCall

\* C16: right after stop() returned, the pending-updates set is empty and
\* lastCheckTime is absent again.
C16_StopResetsState ==
    [][StopReturns =>
          (projectsWithUpdates' = {} /\ lastCheckTime' = 0)]_vars

\* A step that calls checkForUpdates() while a cycle is in flight.
ReentrantCall == InFlight(Cur) # {} /\ NewCycles # {}

\* C17: checkForUpdates() called while a cycle is in flight leaves the
\* pending-updates set and lastCheckTime as they are and shows no
\* notification.
C17_ReentrantCallIsNoOp ==
    [][ReentrantCall =>
          /\ projectsWithUpdates' = projectsWithUpdates
          /\ lastCheckTime' = lastCheckTime
          /\ \A c \in DOMAIN cycles : cycles'[c].notified = cycles[c].notified
          /\ \A c \in NewCycles : cycles'[c].notified = 0]_vars

\* C18: no project folder has two git operations (probe or pull) of the
\* service in flight at the same time.
C18_PerFolderMutualExclusion ==
    \A p \in Projects : Cardinality(GitOpsInFlight(p)) <= 1

\* The step in which a pull of p by the command updateProject (invoked by
\* the user or by syncProjectsWithUpdates) succeeds.
CommandPullSucceeds(p) == p \in updateCmd'.pulled \ updateCmd.pulled

\* C19: when a pull of p by the command updateProject succeeds while p is
\* in the pending-updates set left by a completed cycle (no cycle is in
\* flight), p is out of the set once the pull has completed.
C19_PullClearsPending ==
    [][\A p \in Projects :
          (/\ CommandPullSucceeds(p)
           /\ p \in projectsWithUpdates
           /\ InFlight(Cur) = {}) => p \notin projectsWithUpdates']_vars

\* The cycles that ran alone and began after a cycle that ran alone, or as
\* the first one.
RanAlone(cs) ==
    {c \in DOMAIN cs : /\ ~cs[c].overlapped
                       /\ c > 1 => ~cs[c - 1].overlapped}

\* The pending-updates set when cycle c of RanAlone began: only cycles write
\* the set, so it is what the cycle before inserted (empty for the first).
PendingBefore(cs, c) ==
    IF c = 1 THEN {} ELSE {p \in Projects : cs[c - 1].task[p].added}

\* C20 as claimed: after a cycle that ran alone, a project whose probe
\* failed in it is in the pending-updates set iff it was in the set when the
\* cycle began.
C20_FailedProbeKeepsMembership ==
    [][\A c \in 1..MaxCycles :
          (Completes(c) /\ c \in RanAlone(cycles')) =>
             \A p \in Projects :
                cycles'[c].task[p].probe = "failed" =>
                   (p \in projectsWithUpdates' <=>
                       p \in PendingBefore(cycles', c))]_vars

\* C20 amended: every checkForUpdates() call empties the pending-updates
\* set when it begins, and a cycle in which the probe of p failed never
\* inserts p: after it p is in the set only if another cycle inserted it,
\* and not at all when the cycle ran alone, whatever the membership of p
\* before.  A project whose probe failed is probed again by every later
\* cycle for which it is eligible.
C20_FailedProbeDropsEntry ==
    [][/\ NewCycles # {} => projectsWithUpdates' = {}
       /\ \A c \in 1..MaxCycles : Completes(c) =>
             \A p \in Projects :
                cycles'[c].task[p].probe = "failed" =>
                   /\ ~cycles'[c].task[p].added
                   /\ p \in projectsWithUpdates' =>
                         \E d \in DOMAIN cycles' \ {c} :
                            cycles'[d].task[p].added
                   /\ ~cycles'[c].overlapped => p \notin projectsWithUpdates'
       /\ \A c \in NewCycles : \A p \in Projects :
             (/\ \E d \in DOMAIN cycles : cycles[d].task[p].probe = "failed"
              /\ projects'[p].enabled
              /\ projects'[p].git) => cycles'[c].task[p].pc = "probe"]_vars

\* C20 witness: a cycle that ran alone has completed; the probe of a project
\* that was pending when the cycle began failed in it, and the project is no
\* longer in the set.
C20_Witness ==
    \E c \in CycleIds : \E p \in Projects :
       /\ cycles[c].status = "done"
       /\ c \in RanAlone(cycles)
       /\ cycles[c].task[p].probe = "failed"
       /\ p \in PendingBefore(cycles, c)
       /\ p \notin projectsWithUpdates

\* C21: every name in the pending-updates set right after a cycle completes
\* belongs to a project that was enabled and git-backed when that cycle read
\* the registry and that the cycle found behind.
C21_NoStaleEntries ==
    [][\A c \in 1..MaxCycles : Completes(c) =>
          \A p \in projectsWithUpdates' :
             /\ cycles'[c].seen[p].enabled
             /\ cycles'[c].seen[p].git
             /\ cycles'[c].task[p].probe = "behind"]_vars

\* C22: every cycle reads the registry and the .git markers when it begins:
\* it probes exactly the projects that are enabled and git-backed at that
\* moment, whatever earlier cycles saw, and a project that is not git-backed
\* then gets no git operation from the cycle.
C22_EligibilityReevaluated ==
    [][/\ \A c \in NewCycles : \A p \in Projects :
             /\ cycles'[c].seen[p] = projects'[p]
             /\ cycles'[c].task[p].pc = "probe" <=>
                   (projects'[p].enabled /\ projects'[p].git)
       /\ \A c \in DOMAIN cycles' : \A p \in Projects :
             ~cycles'[c].seen[p].git => cycles'[c].task[p] = NoTask]_vars

\* C22 witness: a project that had no .git marker when the first cycle began
\* has one when the second begins, and the second cycle has probed it.
C22_Witness ==
    /\ Len(cycles) = 2
    /\ \E p \in Projects :
          /\ ~cycles[1].seen[p].git
          /\ cycles[1].task[p] = NoTask
          /\ cycles[2].seen[p].git
          /\ cycles[2].task[p].probe # "none"

\* C23: a cycle takes the settings as they are when it begins and keeps that
\* snapshot: its pulls follow the snapshot's autoMerge and its notification
\* the snapshot's notifyOnUpdates, whatever the settings are by then; and the
\* settings change only in steps of user commands, never by the service.
C23_ConfigSnapshotPerCycle ==
    [][/\ \A c \in NewCycles : cycles'[c].config = cfg'
       /\ \A c \in DOMAIN cycles : cycles'[c].config = cycles[c].config
       /\ \A c \in 1..MaxCycles : Completes(c) =>
             /\ cycles'[c].notified > 0 <=>
                   (/\ cycles'[c].updatesFound > 0
                    /\ cycles'[c].config.notifyOnUpdates)
             /\ \A p \in Projects :
                   cycles'[c].task[p].added =>
                      (cycles'[c].task[p].pull # "none" <=>
                          cycles'[c].config.autoMerge)
       /\ cfg' # cfg => nCommands' > nCommands]_vars

\* C23 witness: notifyOnUpdates was switched off while a manual check was in
\* flight (the watcher's stop() marked the cycle); the cycle has completed
\* and shown its notification, as its snapshot says.
C23_Witness ==
    \E c \in CycleIds :
       /\ cycles[c].status = "done"
       /\ cycles[c].stoppedSince
       /\ cycles[c].config.notifyOnUpdates
       /\ ~cfg.notifyOnUpdates
       /\ cycles[c].notified > 0

\* What one start() call made now, with autoSync enabled, does before it
\* suspends or returns.
StartNow_RunsOneCycleOrArms ==
    cfg.enabled =>
       LET s == Start(Cur)
           n == Len(s.cycles)
       IN ~s.over =>
          IF cfg.runOnStartup
          THEN /\ n = Len(cycles) + 1
               /\ s.cycles[n].origin = "start"
               /\ s.cycles[n].starter = cfg.intervalMinutes
               /\ s.cycles[n].status = "running" => s.timers = timers
               /\ s.cycles[n].status = "done" =>
                     /\ Cardinality(s.timers) = Cardinality(timers) + 1
                     /\ [id |-> s.intervalId,
                         minutes |-> cfg.intervalMinutes] \in s.timers
          ELSE /\ n = Len(cycles)
               /\ Cardinality(s.timers) = Cardinality(timers) + 1
               /\ [id |-> s.intervalId,
                   minutes |-> cfg.intervalMinutes] \in s.timers

\* C24: start() with autoSync enabled begins exactly one cycle at once when
\* runOnStartup is true and arms the timer when that cycle has completed;
\* when runOnStartup is false it begins no cycle and arms the timer at once.
C24_RunOnStartup ==
    /\ []StartNow_RunsOneCycleOrArms
    /\ [][\A c \in 1..MaxCycles :
             (Completes(c) /\ cycles'[c].starter # 0) =>
                /\ cycles'[c].origin = "start"
                /\ cycles'[c].config.runOnStartup
                /\ [id |-> intervalId',
                    minutes |-> cycles'[c].starter] \in timers']_vars

\* C24 witness: activation with runOnStartup ran one cycle, which found a
\* project behind and has completed, and the timer is armed after it.
C24_Witness ==
    /\ Len(cycles) = 1
    /\ cycles[1].origin = "start"
    /\ cycles[1].status = "done"
    /\ cycles[1].updatesFound > 0
    /\ timers = {[id |-> intervalId, minutes |-> cfg.intervalMinutes]}
    /\ nCommands = 0

\* The number of git operations cycle c may still have to wait for: a task
\* at its probe has the probe and possibly a pull ahead, a task at its pull
\* has that pull.
RECURSIVE Remaining(_, _, _)
Remaining(cs, c, ps) ==
    IF ps = {} THEN 0
    ELSE LET p == CHOOSE q \in ps : TRUE
             pc == cs[c].task[p].pc
         IN (IF pc = "probe" THEN 2 ELSE IF pc = "pull" THEN 1 ELSE 0)
            + Remaining(cs, c, ps \ {p})

\* C25: a cycle is running exactly as long as one of its git operations is
\* still to return; every return of one of its git operations strictly
\* decreases the work it waits for and no step increases it, so a cycle whose
\* git operations all return completes; it completes, notifies and stays
\* complete only once the task of every eligible project has ended.
C25_FanInAndTermination ==
    /\ [](\A c \in CycleIds :
             /\ cycles[c].status = "running" <=> Remaining(cycles, c, Projects) > 0
             /\ cycles[c].status \in {"running", "done"}
             /\ cycles[c].notified > 0 => cycles[c].status = "done")
    /\ [][/\ \A c \in CycleIds :
               /\ Remaining(cycles', c, Projects) <= Remaining(cycles, c, Projects)
               /\ cycles[c].status = "done" => cycles'[c].status = "done"
          /\ \A c \in CycleIds, p \in Projects :
                 cycles'[c].task[p].pc # cycles[c].task[p].pc =>
                    /\ Remaining(cycles', c, Projects) < Remaining(cycles, c, Projects)
                    /\ cycles[c].task[p].pc \in {"probe", "pull"}
          /\ \A c \in CycleIds : Completes(c) =>
                 /\ Remaining(cycles, c, Projects) \in {1, 2}
                 /\ cycles'[c].notified > 0 <=>
                       (cycles'[c].updatesFound > 0 /\ cycles'[c].config.notifyOnUpdates)
                 /\ statusBar' = IF ~cfg'.enabled THEN "hidden"
                                  ELSE IF projectsWithUpdates' # {} THEN "updates"
                                  ELSE "synced"]_vars

\* C25 witness: a cycle over two eligible projects has completed after both
\* tasks ended, one of them with a pull, and has shown its notification.
C25_Witness ==
    \E c \in CycleIds :
       /\ cycles[c].status = "done"
       /\ cycles[c].eligible = Projects
       /\ \A p \in Projects : cycles[c].task[p].pc = "done"
       /\ \E p \in Projects : cycles[c].task[p].pull # "none"
       /\ cycles[c].notified > 0
       /\ InFlight(Cur) = {}

\* C26: start() on a service whose timer is armed is rejected: from a state
\* with a timer armed no step leaves more timers armed than before, and no
\* step begins the run-on-startup cycle of a start() while the armed timer
\* stays in place.
C26_DoubleStartRejected ==
    [][timers # {} =>
          /\ Cardinality(timers') <= Cardinality(timers)
          /\ timers' = timers =>
                \A c \in NewCycles : cycles'[c].origin # "start"]_vars

\* C27: a cycle that finds no enabled git-backed project when it starts is
\* complete in the step that starts it: it issues no git operation then or
\* later, shows no notification, leaves the pending-updates set empty, has
\* recorded lastCheckTime and leaves the status display refreshed.
C27_EmptyCycle ==
    [][/\ \A c \in NewCycles : cycles'[c].eligible = {} =>
             /\ cycles'[c].status = "done"
             /\ cycles'[c].notified = 0
             /\ projectsWithUpdates' = {}
             /\ lastCheckTime' \in NewCycles
             /\ lastCheckTime' >= c
             /\ statusBar' = IF cfg'.enabled THEN "synced" ELSE "hidden"
       /\ \A c \in DOMAIN cycles' : cycles'[c].eligible = {} =>
             /\ \A p \in Projects : cycles'[c].task[p] = NoTask
             /\ cycles'[c].updatesFound = 0]_vars

\* C27 witness: after a cycle that found a project behind, the registry lost
\* its last eligible project and a second cycle ran over the empty list; it
\* is complete, the set is empty and the time recorded is that cycle's.
C27_Witness ==
    /\ Len(cycles) = 2
    /\ cycles[1].updatesFound > 0
    /\ cycles[1].status = "done"
    /\ cycles[2].eligible = {}
    /\ cycles[2].status = "done"
    /\ cycles[2].origin = "timer"
    /\ projectsWithUpdates = {}
    /\ lastCheckTime = 2
    /\ statusBar = "synced"

\* C28: whenever no start() call is suspended in its run-on-startup cycle, a
\* timer is armed iff auto-sync is enabled in the configuration.
C28_TimerMatchesConfig ==
    (phase = "active" /\ SuspendedStarts = {}) =>
       (timers # {} <=> cfg.enabled)

\* C29: deactivate() leaves no timer of the service armed, and no timer tick
\* begins a check cycle once the extension is deactivated.
C29_DeactivateStopsAutoSync ==
    [][/\ (phase = "active" /\ phase' = "inactive") => timers' = {}
       /\ phase = "inactive" =>
             \A c \in NewCycles : cycles'[c].origin # "timer"]_vars

\* The projects cycle c found behind their remote.
FoundBehind(cs, c) == {p \in Projects : cs[c].task[p].probe = "behind"}

====
